---- MODULE Spec2Model ----
(***************************************************************************)
(* Model of reedline's EditStack<T> (src/core_editor/edit_stack.rs): two   *)
(* vectors of snapshots, undo_list and redo_list, and the four operations  *)
(* undo, redo, insert and reset.  The active snapshot is owned by the      *)
(* caller and handed to undo/redo as `&mut T`; it is the variable          *)
(* current_state.  Vectors are sequences whose last element is the most    *)
(* recently pushed one.                                                    *)
(***************************************************************************)
EXTENDS Integers, Sequences, FiniteSets, TLC

\* Bounds of the model.
MaxLen == 3
NumValues == 3

Values == 1..NumValues

VARIABLES
    undo_list,      \* EditStack.undo_list
    redo_list,      \* EditStack.redo_list
    current_state,  \* the caller's active snapshot (the &mut T of undo/redo)
    panicked,       \* TRUE once a call has not returned normally
    lastOp,         \* history: the most recent call
    lastArg,        \* history: <<v>> when the most recent call was insert(v)
    pre,            \* history: the state right before the most recent call
    prevOp,         \* history: the call before the most recent one
    pre2,           \* history: the state right before that call
    undoSince,      \* history: an undo call happened since the last insert/reset/new
    run             \* history: the current run of calls of one operation: which
                    \* operation, how many calls so far, the state before the first

vars == <<undo_list, redo_list, current_state, panicked,
          lastOp, lastArg, pre, prevOp, pre2, undoSince, run>>

\* Vec::last / the vector without its last element (what Vec::pop returns and leaves).
Last(vec) == vec[Len(vec)]
Front(vec) == SubSeq(vec, 1, Len(vec) - 1)

\* Variant of new: starts the history with a default snapshot.
new_with_default == [undo_list |-> <<1>>, redo_list |-> <<>>]

\* EditStack::new
new == [undo_list |-> <<>>, redo_list |-> <<>>]

\* Variants of undo used to test the properties below against plausible slips.
\* Takes the oldest entry of undo_list instead of the newest.
undo_pops_front(self, cur) ==
    IF self.undo_list # <<>>
    THEN [undo_list     |-> Tail(self.undo_list),
          redo_list     |-> Append(self.redo_list, cur),
          current_state |-> Head(self.undo_list),
          panicked      |-> FALSE]
    ELSE [undo_list     |-> self.undo_list,
          redo_list     |-> self.redo_list,
          current_state |-> cur,
          panicked      |-> FALSE]

\* Records the active snapshot in redo_list even when there is nothing to undo.
undo_pushes_on_empty(self, cur) ==
    IF self.undo_list # <<>>
    THEN [undo_list     |-> Front(self.undo_list),
          redo_list     |-> Append(self.redo_list, cur),
          current_state |-> Last(self.undo_list),
          panicked      |-> FALSE]
    ELSE [undo_list     |-> self.undo_list,
          redo_list     |-> Append(self.redo_list, cur),
          current_state |-> cur,
          panicked      |-> FALSE]

\* `self.undo_list.pop().unwrap()`: does not return normally on an empty undo_list.
undo_unwrap(self, cur) ==
    IF self.undo_list # <<>>
    THEN [undo_list     |-> Front(self.undo_list),
          redo_list     |-> Append(self.redo_list, cur),
          current_state |-> Last(self.undo_list),
          panicked      |-> FALSE]
    ELSE [undo_list     |-> self.undo_list,
          redo_list     |-> self.redo_list,
          current_state |-> cur,
          panicked      |-> TRUE]

\* Pushes a copy of the active snapshot but leaves the caller's slot as it was.
undo_keeps_current(self, cur) ==
    IF self.undo_list # <<>>
    THEN [undo_list     |-> Front(self.undo_list),
          redo_list     |-> Append(self.redo_list, cur),
          current_state |-> cur,
          panicked      |-> FALSE]
    ELSE [undo_list     |-> self.undo_list,
          redo_list     |-> self.redo_list,
          current_state |-> cur,
          panicked      |-> FALSE]

\* Stops at the last entry of undo_list instead of taking it.
undo_stops_at_one(self, cur) ==
    IF Len(self.undo_list) > 1
    THEN [undo_list     |-> Front(self.undo_list),
          redo_list     |-> Append(self.redo_list, cur),
          current_state |-> Last(self.undo_list),
          panicked      |-> FALSE]
    ELSE [undo_list     |-> self.undo_list,
          redo_list     |-> self.redo_list,
          current_state |-> cur,
          panicked      |-> FALSE]

\* EditStack::undo: `if let Some(prev_state) = self.undo_list.pop()` then
\* `self.redo_list.push(mem::replace(current_state, prev_state))`.
undo(self, cur) ==
    IF self.undo_list # <<>>
    THEN [undo_list     |-> Front(self.undo_list),
          redo_list     |-> Append(self.redo_list, cur),
          current_state |-> Last(self.undo_list),
          panicked      |-> FALSE]
    ELSE [undo_list     |-> self.undo_list,
          redo_list     |-> self.redo_list,
          current_state |-> cur,
          panicked      |-> FALSE]

\* Variants of redo.
\* Takes the oldest entry of redo_list instead of the newest.
redo_pops_front(self, cur) ==
    IF self.redo_list # <<>>
    THEN [undo_list     |-> Append(self.undo_list, cur),
          redo_list     |-> Tail(self.redo_list),
          current_state |-> Head(self.redo_list),
          panicked      |-> FALSE]
    ELSE [undo_list     |-> self.undo_list,
          redo_list     |-> self.redo_list,
          current_state |-> cur,
          panicked      |-> FALSE]

\* Records the active snapshot in undo_list even when there is nothing to redo.
redo_pushes_on_empty(self, cur) ==
    IF self.redo_list # <<>>
    THEN [undo_list     |-> Append(self.undo_list, cur),
          redo_list     |-> Front(self.redo_list),
          current_state |-> Last(self.redo_list),
          panicked      |-> FALSE]
    ELSE [undo_list     |-> Append(self.undo_list, cur),
          redo_list     |-> self.redo_list,
          current_state |-> cur,
          panicked      |-> FALSE]

\* Overwrites the active snapshot without pushing the former one on undo_list.
redo_drops_current(self, cur) ==
    IF self.redo_list # <<>>
    THEN [undo_list     |-> self.undo_list,
          redo_list     |-> Front(self.redo_list),
          current_state |-> Last(self.redo_list),
          panicked      |-> FALSE]
    ELSE [undo_list     |-> self.undo_list,
          redo_list     |-> self.redo_list,
          current_state |-> cur,
          panicked      |-> FALSE]

\* Pushes a copy of next_state on undo_list instead of the former active snapshot.
redo_pushes_next(self, cur) ==
    IF self.redo_list # <<>>
    THEN [undo_list     |-> Append(self.undo_list, Last(self.redo_list)),
          redo_list     |-> Front(self.redo_list),
          current_state |-> Last(self.redo_list),
          panicked      |-> FALSE]
    ELSE [undo_list     |-> self.undo_list,
          redo_list     |-> self.redo_list,
          current_state |-> cur,
          panicked      |-> FALSE]

\* Puts the former active snapshot at the front of undo_list (`insert(0, ..)`).
redo_pushes_front(self, cur) ==
    IF self.redo_list # <<>>
    THEN [undo_list     |-> <<cur>> \o self.undo_list,
          redo_list     |-> Front(self.redo_list),
          current_state |-> Last(self.redo_list),
          panicked      |-> FALSE]
    ELSE [undo_list     |-> self.undo_list,
          redo_list     |-> self.redo_list,
          current_state |-> cur,
          panicked      |-> FALSE]

\* EditStack::redo: `if let Some(next_state) = self.redo_list.pop()` then
\* `self.undo_list.push(mem::replace(current_state, next_state))`.
redo(self, cur) ==
    IF self.redo_list # <<>>
    THEN [undo_list     |-> Append(self.undo_list, cur),
          redo_list     |-> Front(self.redo_list),
          current_state |-> Last(self.redo_list),
          panicked      |-> FALSE]
    ELSE [undo_list     |-> self.undo_list,
          redo_list     |-> self.redo_list,
          current_state |-> cur,
          panicked      |-> FALSE]

\* Variants of insert.
\* Skips the push when v equals the newest entry of undo_list.
insert_coalesces(self, v) ==
    [undo_list |-> IF self.undo_list # <<>> /\ Last(self.undo_list) = v
                   THEN self.undo_list
                   ELSE Append(self.undo_list, v),
     redo_list |-> <<>>,
     panicked  |-> FALSE]

\* Forgets to clear redo_list.
insert_keeps_redo(self, v) ==
    [undo_list |-> Append(self.undo_list, v),
     redo_list |-> self.redo_list,
     panicked  |-> FALSE]

\* Drops only the newest redo entry (`pop()` where the code has `clear()`).
insert_truncates_redo(self, v) ==
    [undo_list |-> Append(self.undo_list, v),
     redo_list |-> IF self.redo_list = <<>> THEN <<>> ELSE Front(self.redo_list),
     panicked  |-> FALSE]

\* EditStack::insert: push onto undo_list, clear redo_list.
insert(self, v) ==
    [undo_list |-> Append(self.undo_list, v),
     redo_list |-> <<>>,
     panicked  |-> FALSE]

\* Variant of reset: clears undo_list only.
reset_keeps_redo(self) ==
    [undo_list |-> <<>>,
     redo_list |-> self.redo_list,
     panicked  |-> FALSE]

\* EditStack::reset: clear both vectors.
reset(self) ==
    [undo_list |-> <<>>,
     redo_list |-> <<>>,
     panicked  |-> FALSE]

\* The struct value and the full observable state.
Self == [undo_list |-> undo_list, redo_list |-> redo_list]
Snapshot == [undo_list |-> undo_list, redo_list |-> redo_list,
             current_state |-> current_state]

Init ==
    /\ undo_list = new.undo_list
    /\ redo_list = new.redo_list
    /\ current_state \in Values
    /\ panicked = FALSE
    /\ lastOp = "new"
    /\ lastArg = <<>>
    /\ pre = [undo_list |-> new.undo_list, redo_list |-> new.redo_list,
              current_state |-> current_state]
    /\ prevOp = "new"
    /\ pre2 = pre
    /\ undoSince = FALSE
    /\ run = [op |-> "new", len |-> 0, start |-> pre]

\* Runs of calls are counted up to one more than the longest history.
RunCap == MaxLen + 1

\* Bookkeeping shared by the calls.
Record(op, arg) ==
    /\ lastOp' = op
    /\ lastArg' = arg
    /\ pre' = Snapshot
    /\ prevOp' = lastOp
    /\ pre2' = pre
    /\ run' = IF lastOp = op
              THEN [run EXCEPT !.len = IF run.len < RunCap THEN run.len + 1 ELSE RunCap]
              ELSE [op |-> op, len |-> 1, start |-> Snapshot]

\* stack.undo(&mut current)
CallUndo ==
    /\ ~panicked
    /\ LET res == undo(Self, current_state) IN
        /\ undo_list' = res.undo_list
        /\ redo_list' = res.redo_list
        /\ current_state' = res.current_state
        /\ panicked' = res.panicked
    /\ Record("undo", <<>>)
    /\ undoSince' = TRUE

\* stack.redo(&mut current)
CallRedo ==
    /\ ~panicked
    /\ LET res == redo(Self, current_state) IN
        /\ undo_list' = res.undo_list
        /\ redo_list' = res.redo_list
        /\ current_state' = res.current_state
        /\ panicked' = res.panicked
    /\ Record("redo", <<>>)
    /\ UNCHANGED undoSince

\* stack.insert(v): v is moved in; the caller's active snapshot is not passed.
CallInsert ==
    /\ ~panicked
    /\ Len(undo_list) < MaxLen
    /\ \E v \in Values :
        /\ LET res == insert(Self, v) IN
            /\ undo_list' = res.undo_list
            /\ redo_list' = res.redo_list
            /\ panicked' = res.panicked
        /\ Record("insert", <<v>>)
    /\ UNCHANGED current_state
    /\ undoSince' = FALSE

\* stack.reset()
CallReset ==
    /\ ~panicked
    /\ LET res == reset(Self) IN
        /\ undo_list' = res.undo_list
        /\ redo_list' = res.redo_list
        /\ panicked' = res.panicked
    /\ Record("reset", <<>>)
    /\ UNCHANGED current_state
    /\ undoSince' = FALSE

Next == CallUndo \/ CallRedo \/ CallInsert \/ CallReset

Spec == Init /\ [][Next]_vars

(***************************************************************************)
(* Properties.  Each is stated over the state after a call (lastOp) and    *)
(* the state right before it (pre), or the one before that (pre2).         *)
(***************************************************************************)

\* a and b agree on their first n positions.
SamePrefix(a, b, n) == \A i \in 1..n : a[i] = b[i]

\* C1: after undo(cur) on a non-empty undo_list, cur is the former last element
\* of undo_list, redo_list is its former contents with the former cur appended,
\* and undo_list is its former contents without the last element.
C1_UndoExchanges ==
    (lastOp = "undo" /\ Len(pre.undo_list) > 0) =>
        /\ current_state = pre.undo_list[Len(pre.undo_list)]
        /\ Len(redo_list) = Len(pre.redo_list) + 1
        /\ SamePrefix(redo_list, pre.redo_list, Len(pre.redo_list))
        /\ redo_list[Len(redo_list)] = pre.current_state
        /\ Len(undo_list) = Len(pre.undo_list) - 1
        /\ SamePrefix(undo_list, pre.undo_list, Len(undo_list))

\* Scenario 1 of the tests: undo_list=[1,2], redo_list=[], cur=3, then undo.
C1_Witness ==
    /\ lastOp = "undo"
    /\ pre = [undo_list |-> <<1, 2>>, redo_list |-> <<>>, current_state |-> 3]
    /\ current_state = 2 /\ undo_list = <<1>> /\ redo_list = <<3>>

\* C2: after redo(cur) on a non-empty redo_list, cur is the former last element
\* of redo_list, redo_list is its former contents without that element, and
\* undo_list is its former contents with the former cur appended.
C2_RedoExchanges ==
    (lastOp = "redo" /\ Len(pre.redo_list) > 0) =>
        /\ current_state = pre.redo_list[Len(pre.redo_list)]
        /\ Len(redo_list) = Len(pre.redo_list) - 1
        /\ SamePrefix(redo_list, pre.redo_list, Len(redo_list))
        /\ Len(undo_list) = Len(pre.undo_list) + 1
        /\ SamePrefix(undo_list, pre.undo_list, Len(pre.undo_list))
        /\ undo_list[Len(undo_list)] = pre.current_state

\* A redo from a redo_list of two entries, on top of a non-empty undo_list.
C2_Witness ==
    /\ lastOp = "redo"
    /\ Len(pre.redo_list) = 2
    /\ pre.redo_list[1] # pre.redo_list[2]
    /\ Len(pre.undo_list) > 0
    /\ Len(redo_list) = 1

\* C3: after insert(v), redo_list is empty and undo_list is exactly its former
\* contents with v appended, also when v equals its former last element.
C3_InsertAppendsAndClears ==
    lastOp = "insert" =>
        /\ redo_list = <<>>
        /\ Len(undo_list) = Len(pre.undo_list) + 1
        /\ SamePrefix(undo_list, pre.undo_list, Len(pre.undo_list))
        /\ undo_list[Len(undo_list)] = lastArg[1]

\* An insert of a value equal to the newest undo entry, with redo entries pending.
C3_Witness ==
    /\ lastOp = "insert"
    /\ Len(pre.undo_list) > 0
    /\ pre.undo_list[Len(pre.undo_list)] = lastArg[1]
    /\ Len(pre.redo_list) > 0
    /\ Len(undo_list) = Len(pre.undo_list) + 1

\* C4: undo(cur) on an empty undo_list changes neither cur nor either list,
\* whatever redo_list holds.
C4_UndoOnEmptyIsNoop ==
    (lastOp = "undo" /\ pre.undo_list = <<>>) =>
        /\ current_state = pre.current_state
        /\ undo_list = pre.undo_list
        /\ redo_list = pre.redo_list

\* An undo on an empty undo_list while redo_list holds entries.
C4_Witness ==
    /\ lastOp = "undo"
    /\ pre.undo_list = <<>>
    /\ Len(pre.redo_list) > 1
    /\ redo_list = pre.redo_list

\* C5: redo(cur) on an empty redo_list changes neither cur nor either list,
\* whatever undo_list holds.
C5_RedoOnEmptyIsNoop ==
    (lastOp = "redo" /\ pre.redo_list = <<>>) =>
        /\ current_state = pre.current_state
        /\ undo_list = pre.undo_list
        /\ redo_list = pre.redo_list

\* A redo on an empty redo_list while undo_list holds entries.
C5_Witness ==
    /\ lastOp = "redo"
    /\ pre.redo_list = <<>>
    /\ Len(pre.undo_list) > 1
    /\ undo_list = pre.undo_list

\* C6: undo(cur) on a non-empty undo_list immediately followed by redo(cur)
\* restores cur and both lists to what they were before the undo.
C6_UndoRedoRoundTrip ==
    (prevOp = "undo" /\ lastOp = "redo" /\ pre2.undo_list # <<>>) =>
        /\ current_state = pre2.current_state
        /\ undo_list = pre2.undo_list
        /\ redo_list = pre2.redo_list

\* An undo-redo pair started with entries in both lists.
C6_Witness ==
    /\ prevOp = "undo" /\ lastOp = "redo"
    /\ Len(pre2.undo_list) > 1
    /\ pre2.redo_list # <<>>
    /\ pre.current_state # pre2.current_state
    /\ Snapshot = pre2

\* C7: after reset(), both lists are empty, as in a freshly constructed
\* container, and an undo or redo issued right after it leaves cur unchanged.
C7_ResetEmpties ==
    /\ lastOp = "reset" => Self = new
    /\ (prevOp = "reset" /\ lastOp \in {"undo", "redo"}) =>
           /\ current_state = pre.current_state
           /\ Self = new

\* An undo right after a reset that discarded entries of both lists.
C7_Witness ==
    /\ prevOp = "reset" /\ lastOp = "undo"
    /\ pre2.undo_list # <<>>
    /\ pre2.redo_list # <<>>
    /\ pre.undo_list = <<>>

\* C8: redo_list is non-empty only if an undo call has occurred since the most
\* recent insert or reset (or since construction).
C8_RedoOnlyAfterUndo ==
    redo_list # <<>> => undoSince

\* A non-empty redo_list that has survived a redo and an undo.
C8_Witness ==
    /\ redo_list # <<>>
    /\ undoSince
    /\ prevOp = "redo" /\ lastOp = "undo"
    /\ Len(redo_list) > 1

\* C9: every call returns normally from every reachable state: undo, redo and
\* reset can always be taken, insert can be taken wherever the model's cap on
\* the history length allows it, and no call leaves the container in a failed
\* state; a call at a history boundary returns having changed nothing.
C9_Total ==
    /\ ~panicked
    /\ ENABLED CallUndo
    /\ ENABLED CallRedo
    /\ ENABLED CallReset
    /\ Len(undo_list) < MaxLen => ENABLED CallInsert
    /\ (lastOp = "undo" /\ pre.undo_list = <<>>) => Snapshot = pre
    /\ (lastOp = "redo" /\ pre.redo_list = <<>>) => Snapshot = pre

\* An undo then a redo on a container with both lists empty.
C9_Witness ==
    /\ prevOp = "undo" /\ lastOp = "redo"
    /\ pre2.undo_list = <<>> /\ pre2.redo_list = <<>>
    /\ pre.undo_list = <<>> /\ pre.redo_list = <<>>
    /\ ~panicked

\* Number of entries of the two lists of s that are equal to v.
Held(s, v) ==
    Cardinality({i \in 1..Len(s.undo_list) : s.undo_list[i] = v})
    + Cardinality({i \in 1..Len(s.redo_list) : s.redo_list[i] = v})

\* C10 as stated: in every reachable state the value the caller holds as
\* current is not held in undo_list or redo_list.
C10_CurrentNeverHeld ==
    Held(Snapshot, current_state) = 0

\* C10 as amended: the container takes the current value only in undo/redo and
\* only by exchange.  insert and reset leave the caller's current value as it
\* was; after undo or redo the lists hold one more entry equal to the former
\* current value and one fewer equal to the new one, and nothing else changes
\* in what they hold.
C10_CurrentOnlyExchanged ==
    /\ lastOp \in {"insert", "reset"} => current_state = pre.current_state
    /\ lastOp \in {"undo", "redo"} =>
           \A v \in Values :
               Held(Snapshot, v) =
                   Held(pre, v)
                   + (IF v = pre.current_state THEN 1 ELSE 0)
                   - (IF v = current_state THEN 1 ELSE 0)

\* An undo that exchanged the current value for a different stored one, while
\* the lists also hold an entry equal to the new current value.
C10_Witness ==
    /\ lastOp = "undo"
    /\ pre.undo_list # <<>>
    /\ current_state # pre.current_state
    /\ Held(Snapshot, pre.current_state) = Held(pre, pre.current_state) + 1
    /\ Held(Snapshot, current_state) > 0

\* C11: a newly constructed container has both lists empty, and an undo or a
\* redo as its first call changes neither the current value nor the lists.
C11_NewIsEmpty ==
    /\ lastOp = "new" => (undo_list = <<>> /\ redo_list = <<>>)
    /\ (prevOp = "new" /\ lastOp \in {"undo", "redo"}) =>
           /\ pre.undo_list = <<>> /\ pre.redo_list = <<>>
           /\ current_state = pre.current_state
           /\ undo_list = <<>> /\ redo_list = <<>>

\* A redo as the first call on a new container.
C11_Witness ==
    /\ prevOp = "new" /\ lastOp = "redo"
    /\ pre.undo_list = <<>> /\ pre.redo_list = <<>>
    /\ current_state = pre.current_state

Reverse(seq) == [i \in 1..Len(seq) |-> seq[Len(seq) + 1 - i]]

\* The history as one sequence, oldest first: the undo entries, the active
\* snapshot, then the redo entries from the next one to the furthest.
Timeline(s) == s.undo_list \o <<s.current_state>> \o Reverse(s.redo_list)

\* C13: undo and redo only move a cursor along a fixed timeline: the sequence
\* undo_list ++ [cur] ++ reverse(redo_list) is the same before and after the
\* call, and the call either changed nothing or did the whole exchange (one
\* list one shorter, the other one longer).
C13_TimelinePreserved ==
    lastOp \in {"undo", "redo"} =>
        /\ Timeline(Snapshot) = Timeline(pre)
        /\ Len(undo_list) + Len(redo_list) = Len(pre.undo_list) + Len(pre.redo_list)
        /\ \/ Snapshot = pre
           \/ /\ lastOp = "undo"
              /\ Len(undo_list) = Len(pre.undo_list) - 1
              /\ Len(redo_list) = Len(pre.redo_list) + 1
           \/ /\ lastOp = "redo"
              /\ Len(redo_list) = Len(pre.redo_list) - 1
              /\ Len(undo_list) = Len(pre.undo_list) + 1

\* A redo in the middle of a timeline of pairwise different snapshots.
C13_Witness ==
    /\ lastOp = "redo"
    /\ Len(pre.redo_list) > 1
    /\ Len(undo_list) > 0
    /\ Snapshot # pre
    /\ Timeline(Snapshot)[1] # Timeline(Snapshot)[2]
    /\ Timeline(Snapshot)[2] # Timeline(Snapshot)[3]

\* C14: redo(cur) on a non-empty redo_list immediately followed by undo(cur)
\* restores cur and both lists to what they were before the redo.
C14_RedoUndoRoundTrip ==
    (prevOp = "redo" /\ lastOp = "undo" /\ pre2.redo_list # <<>>) =>
        /\ current_state = pre2.current_state
        /\ undo_list = pre2.undo_list
        /\ redo_list = pre2.redo_list

\* A redo-undo pair started with entries in both lists.
C14_Witness ==
    /\ prevOp = "redo" /\ lastOp = "undo"
    /\ Len(pre2.redo_list) > 1
    /\ pre2.undo_list # <<>>
    /\ pre.current_state # pre2.current_state
    /\ Snapshot = pre2

\* C15: when only undo is called from a state with n > 0 undo entries, the
\* k-th call (k <= n) leaves n - k entries, so after exactly n calls undo_list
\* is empty and cur is the oldest entry it held; every further undo changes
\* nothing.  The same holds for a run of redo calls and redo_list.
C15_RepeatedUndoTerminates ==
    /\ lastOp = "undo" =>
           LET n == Len(run.start.undo_list) IN
               /\ run.op = "undo"
               /\ run.len <= n => Len(undo_list) = n - run.len
               /\ (run.len >= n /\ n > 0) =>
                      /\ undo_list = <<>>
                      /\ current_state = run.start.undo_list[1]
               /\ run.len > n => (undo_list = <<>> /\ Snapshot = pre)
    /\ lastOp = "redo" =>
           LET m == Len(run.start.redo_list) IN
               /\ run.op = "redo"
               /\ run.len <= m => Len(redo_list) = m - run.len
               /\ (run.len >= m /\ m > 0) =>
                      /\ redo_list = <<>>
                      /\ current_state = run.start.redo_list[1]
               /\ run.len > m => (redo_list = <<>> /\ Snapshot = pre)

\* A run of undo calls one longer than an undo_list of several entries whose
\* oldest and newest entries differ.
C15_Witness ==
    /\ lastOp = "undo" /\ run.op = "undo"
    /\ Len(run.start.undo_list) > 1
    /\ run.start.undo_list[1] # run.start.undo_list[Len(run.start.undo_list)]
    /\ run.len = Len(run.start.undo_list) + 1
    /\ undo_list = <<>>
    /\ current_state = run.start.undo_list[1]

====
